---- MODULE Spec2Model ----
(***************************************************************************)
(* Model of the enclave runtime's sealed state store                       *)
(* (enclave-runtime/src/state.rs) and of the operation pool's ban rotator  *)
(* (enclave-runtime/src/top_pool/rotator.rs).                              *)
(*                                                                         *)
(* Bytes, the base-58 alphabet and the 32-byte shard identifier are scaled *)
(* down (ByteBase, TextBase, ShardIdLen); the algorithms are the ones the  *)
(* code runs, on the smaller alphabets.                                    *)
(***************************************************************************)
EXTENDS Integers, Sequences, FiniteSets, TLC

VARIABLES fs, last, pending, banned_until, rlast, lock, thr

vars == <<fs, last, pending, banned_until, rlast, lock, thr>>

\* the state store's variables and the rotator's
storeVars == <<fs, last, pending>>

\* the lock around the ban map and the threads' positions in their calls
lockVars == <<lock, thr>>

rotVars == <<banned_until, rlast, lock, thr>>

(***************************************************************************)
(* Bounds of the model                                                     *)
(***************************************************************************)
\* a byte is 0..ByteBase-1 (256 in the program)
ByteBase == 4
\* the text alphabet has TextBase digits (58 in the program)
TextBase == 3
\* bytes of a shard identifier (H256: 32 in the program)
ShardIdLen == 2
\* entries under SHARDS_PATH that are not shard directories of the model
MaxForeign == 1
\* the callers' clock reads 0 when they ban, or one of MaxNow instants past
\* the expiry of a ban made at 0
MaxNow == 1
\* block heights and validity bounds are 0..MaxBlock
MaxBlock == 1

Byte == 0 .. (ByteBase - 1)
B58Digit == 0 .. (TextBase - 1)
\* a UTF-8 character that is not in the base-58 alphabet (such as '0' or 'l')
NonB58Char == TextBase
\* a code unit of a file name that is not valid UTF-8
NonUtf8Unit == TextBase + 1

(***************************************************************************)
(* Sequences of bytes                                                      *)
(***************************************************************************)
RECURSIVE FromDigits(_, _)
\* big-endian digits to the number they denote
FromDigits(ds, base) ==
    IF Len(ds) = 0 THEN 0
    ELSE FromDigits(SubSeq(ds, 1, Len(ds) - 1), base) * base + ds[Len(ds)]

RECURSIVE ToDigits(_, _)
\* the number's big-endian digits, none for 0
ToDigits(n, base) ==
    IF n = 0 THEN <<>> ELSE Append(ToDigits(n \div base, base), n % base)

RECURSIVE LeadingZeros(_)
LeadingZeros(ds) ==
    IF Len(ds) = 0 \/ ds[1] # 0 THEN 0 ELSE 1 + LeadingZeros(Tail(ds))

Zeros(n) == [i \in 1 .. n |-> 0]

\* lexicographic order of byte vectors (the order of a BTreeMap<Vec<u8>, _>)
SeqLess(a, b) ==
    \E i \in 1 .. Len(b) :
        /\ \A j \in 1 .. (i - 1) : j <= Len(a) /\ a[j] = b[j]
        /\ (i > Len(a) \/ a[i] < b[i])

(***************************************************************************)
(* Textual encoding of a shard identifier (state.rs: encode().to_base58(), *)
(* from_base58(), ShardIdentifier::decode)                                 *)
(***************************************************************************)
\* base-58: a leading zero byte becomes a leading zero digit ('1'), the rest
\* is the number in the text base
ToBase58(bytes) ==
    Zeros(LeadingZeros(bytes)) \o ToDigits(FromDigits(bytes, ByteBase), TextBase)

\* from_base58: an error for a character outside the alphabet
FromBase58(text) ==
    IF \E i \in 1 .. Len(text) : text[i] \notin B58Digit
    THEN [ok |-> FALSE, bytes |-> <<>>]
    ELSE [ok |-> TRUE,
          bytes |-> Zeros(LeadingZeros(text))
                        \o ToDigits(FromDigits(text, TextBase), ByteBase)]

\* OsString::into_string: an error for a name that is not valid UTF-8
IntoString(name) ==
    IF \E i \in 1 .. Len(name) : name[i] = NonUtf8Unit
    THEN [ok |-> FALSE, text |-> <<>>]
    ELSE [ok |-> TRUE, text |-> name]

\* ShardIdentifier::encode: the identifier's bytes, no length prefix
EncodeShard(shard) == shard

\* ShardIdentifier::decode(&mut slice): the first ShardIdLen bytes; an error
\* when the input is shorter; bytes left over are not looked at
DecodeShard(bytes) ==
    IF Len(bytes) < ShardIdLen
    THEN [ok |-> FALSE, shard |-> <<>>]
    ELSE [ok |-> TRUE, shard |-> SubSeq(bytes, 1, ShardIdLen)]

\* the shards the callers use
ShardA == [i \in 1 .. ShardIdLen |-> IF i = ShardIdLen THEN 1 ELSE 0]

ShardB == [i \in 1 .. ShardIdLen |-> (i + 1) % ByteBase]

Shards == {ShardA, ShardB}

\* the directory names of the shards, computed once
ShardDirs == [shard \in Shards |-> ToBase58(EncodeShard(shard))]

\* the directory name of a shard under SHARDS_PATH
ShardDir(shard) == ShardDirs[shard]

(***************************************************************************)
(* The state value's codec (StfStateType: a BTreeMap<Vec<u8>, Vec<u8>>)    *)
(***************************************************************************)
EmptyMap == <<>>

\* map with key k set to v
MapInsert(m, k, v) ==
    [x \in (DOMAIN m) \cup {k} |-> IF x = k THEN v ELSE m[x]]

\* Vec<u8>::encode: the length, then the bytes
EncodeVec(v) == <<Len(v)>> \o v

\* the least key of a non-empty set of keys
MinKey(keys) == CHOOSE k \in keys : \A o \in keys : o = k \/ SeqLess(k, o)

RECURSIVE EncodeEntries(_, _)
EncodeEntries(m, keys) ==
    IF keys = {} THEN <<>>
    ELSE LET k == MinKey(keys)
         IN  EncodeVec(k) \o EncodeVec(m[k]) \o EncodeEntries(m, keys \ {k})

\* StfStateType::encode: the number of entries, then the entries by
\* ascending key
EncodeState(m) == <<Cardinality(DOMAIN m)>> \o EncodeEntries(m, DOMAIN m)

\* Vec<u8>::decode at position pos: an error when the input ends early
DecodeVec(bytes, pos) ==
    IF pos > Len(bytes) \/ pos + bytes[pos] > Len(bytes)
    THEN [ok |-> FALSE, val |-> <<>>, next |-> pos]
    ELSE [ok |-> TRUE,
          val |-> SubSeq(bytes, pos + 1, pos + bytes[pos]),
          next |-> pos + bytes[pos] + 1]

RECURSIVE DecodeEntries(_, _, _, _)
DecodeEntries(bytes, pos, n, acc) ==
    IF n = 0 THEN [ok |-> TRUE, val |-> acc]
    ELSE LET k == DecodeVec(bytes, pos)
             v == DecodeVec(bytes, k.next)
         IN  IF ~k.ok \/ ~v.ok THEN [ok |-> FALSE, val |-> EmptyMap]
             ELSE DecodeEntries(bytes, v.next, n - 1, MapInsert(acc, k.val, v.val))

\* StfStateType::decode(&mut slice): the number of entries, then as many
\* entries (a later entry replaces an earlier one of the same key); an error
\* when the input ends early; bytes left over are not looked at
DecodeState(bytes) ==
    IF Len(bytes) = 0 THEN [ok |-> FALSE, val |-> EmptyMap]
    ELSE DecodeEntries(bytes, 2, bytes[1], EmptyMap)

(***************************************************************************)
(* Sealing gateway and content hasher                                      *)
(***************************************************************************)
\* how the gateway serves one call: both AesSeal::unseal and the key's
\* encrypt/decrypt succeed, or one of them fails
GatewayOutcomes == {"ok", "fails"}

\* the key stream of the sealed key at byte i
KeyStream(i) == (2 * i + 1) % ByteBase

\* key.encrypt / key.decrypt: a stream cipher, the same in both directions
\* (test_encrypt_decrypt_state_type_works decrypts by encrypting again);
\* the length is kept
AesCrypt(bytes) ==
    [i \in 1 .. Len(bytes) |-> (KeyStream(i) - bytes[i]) % ByteBase]

RECURSIVE HashFold(_, _)
HashFold(bytes, h) ==
    IF Len(bytes) = 0 THEN h
    ELSE HashFold(Tail(bytes), (h * 31 + bytes[1] + 1) % 65521)

\* rsgx_sha256_slice
Sha256(bytes) == HashFold(bytes, 7)

(***************************************************************************)
(* State values and results                                                *)
(***************************************************************************)
\* Stf::init_state(): the canonical initial state, with the diff of the
\* insertions that built it
Stf_init_state ==
    [state |-> (<<0>> :> <<1>>), state_diff |-> (<<0>> :> << <<1>> >>)]

\* StfState's Default::default() diff
EmptyDiff == EmptyMap

\* the state values and diffs the callers hand to write
StateValues == { EmptyMap, (<<1>> :> <<3>>) @@ (<<0, 2>> :> <<>>) }

StateDiffs == { EmptyDiff, (<<1>> :> << <<2>> >>) @@ (<<0>> :> <<>>) }

StfStates == [state : StateValues, state_diff : StateDiffs]

NoRes ==
    [ok |-> FALSE, err |-> "none", state |-> EmptyMap, state_diff |-> EmptyMap,
     hash |-> 0, found |-> FALSE, shards |-> <<>>, unsealed |-> FALSE]

Err(kind, unsealed) == [NoRes EXCEPT !.err = kind, !.unsealed = unsealed]

OkState(state, diff, unsealed) ==
    [NoRes EXCEPT !.ok = TRUE, !.state = state, !.state_diff = diff,
                  !.unsealed = unsealed]

OkHash(h) == [NoRes EXCEPT !.ok = TRUE, !.hash = h, !.unsealed = TRUE]

OkUnit == [NoRes EXCEPT !.ok = TRUE]

OkBool(b) == [NoRes EXCEPT !.ok = TRUE, !.found = b]

OkShards(ids) == [NoRes EXCEPT !.ok = TRUE, !.shards = ids]

(***************************************************************************)
(* The shards tree: fs.root (SHARDS_PATH exists), fs.dirs (the entries     *)
(* under it), fs.files (the state file of an entry, where there is one)    *)
(***************************************************************************)
\* io::read: the file's bytes; an error when there is no file
io_read(f, name) ==
    IF name \in DOMAIN f.files
    THEN [ok |-> TRUE, bytes |-> f.files[name]]
    ELSE [ok |-> FALSE, bytes |-> <<>>]

\* io::write: creates or truncates the file and writes the bytes; an error
\* when the directory is missing
io_write(f, name, bytes) ==
    IF f.root /\ name \in f.dirs
    THEN [ok |-> TRUE, fs |-> [f EXCEPT !.files = MapInsert(f.files, name, bytes)]]
    ELSE [ok |-> FALSE, fs |-> f]

\* read without the decryption
read_no_decrypt(f, name, gw) ==
    LET bytes == io_read(f, name)
    IN  IF ~bytes.ok THEN [ok |-> FALSE, err |-> "io", bytes |-> <<>>, unsealed |-> FALSE]
        ELSE [ok |-> TRUE, err |-> "none", bytes |-> bytes.bytes, unsealed |-> FALSE]

\* read without the early return for an empty file
read_unseal_empty(f, name, gw) ==
    LET bytes == io_read(f, name)
    IN  IF ~bytes.ok THEN [ok |-> FALSE, err |-> "io", bytes |-> <<>>, unsealed |-> FALSE]
        ELSE IF gw # "ok"
        THEN [ok |-> FALSE, err |-> "crypto", bytes |-> <<>>, unsealed |-> TRUE]
        ELSE [ok |-> TRUE, err |-> "none", bytes |-> AesCrypt(bytes.bytes),
              unsealed |-> TRUE]

\* read
read(f, name, gw) ==
    LET bytes == io_read(f, name)
    IN  IF ~bytes.ok THEN [ok |-> FALSE, err |-> "io", bytes |-> <<>>, unsealed |-> FALSE]
        ELSE IF Len(bytes.bytes) = 0
        THEN [ok |-> TRUE, err |-> "none", bytes |-> <<>>, unsealed |-> FALSE]
        ELSE IF gw # "ok"
        THEN [ok |-> FALSE, err |-> "crypto", bytes |-> <<>>, unsealed |-> TRUE]
        ELSE [ok |-> TRUE, err |-> "none", bytes |-> AesCrypt(bytes.bytes),
              unsealed |-> TRUE]

\* load falling back to the initial state when reading or decoding fails
load_default_on_error(f, shard, gw) ==
    LET state_vec == read(f, ShardDir(shard), gw)
    IN  IF ~state_vec.ok \/ Len(state_vec.bytes) = 0
        THEN OkState(Stf_init_state.state, EmptyDiff, state_vec.unsealed)
        ELSE LET state == DecodeState(state_vec.bytes)
             IN  IF ~state.ok
                 THEN OkState(Stf_init_state.state, EmptyDiff, state_vec.unsealed)
                 ELSE OkState(state.val, EmptyDiff, state_vec.unsealed)

\* load
load(f, shard, gw) ==
    LET state_path == ShardDir(shard)
        state_vec == read(f, state_path, gw)
    IN  IF ~state_vec.ok THEN Err(state_vec.err, state_vec.unsealed)
        ELSE IF Len(state_vec.bytes) = 0
        THEN OkState(Stf_init_state.state, EmptyDiff, state_vec.unsealed)
        ELSE LET state == DecodeState(state_vec.bytes)
             IN  IF ~state.ok THEN Err("decode", state_vec.unsealed)
                 ELSE OkState(state.val, EmptyDiff, state_vec.unsealed)

\* encrypt
encrypt(state, gw) ==
    IF gw # "ok" THEN [ok |-> FALSE, bytes |-> <<>>]
    ELSE [ok |-> TRUE, bytes |-> AesCrypt(state)]

\* write sealing the diff along with the value
write_with_diff(f, state, shard, gw) ==
    LET cyphertext == encrypt(EncodeState(state.state)
                                 \o <<Cardinality(DOMAIN state.state_diff)>>, gw)
    IN  IF ~cyphertext.ok THEN [res |-> Err("crypto", TRUE), fs |-> f]
        ELSE LET state_hash == Sha256(cyphertext.bytes)
                 w == io_write(f, ShardDir(shard), cyphertext.bytes)
             IN  IF ~w.ok THEN [res |-> Err("io", TRUE), fs |-> f]
                 ELSE [res |-> OkHash(state_hash), fs |-> w.fs]

\* write adding the ciphertext to what the state file holds
write_append(f, state, shard, gw) ==
    LET cyphertext == encrypt(EncodeState(state.state), gw)
    IN  IF ~cyphertext.ok THEN [res |-> Err("crypto", TRUE), fs |-> f]
        ELSE LET state_hash == Sha256(cyphertext.bytes)
                 held == IF ShardDir(shard) \in DOMAIN f.files THEN f.files[ShardDir(shard)] ELSE <<>>
                 w == io_write(f, ShardDir(shard), held \o cyphertext.bytes)
             IN  IF ~w.ok THEN [res |-> Err("io", TRUE), fs |-> f]
                 ELSE [res |-> OkHash(state_hash), fs |-> w.fs]

\* write
write(f, state, shard, gw) ==
    LET cyphertext == encrypt(EncodeState(state.state), gw)
    IN  IF ~cyphertext.ok THEN [res |-> Err("crypto", TRUE), fs |-> f]
        ELSE LET state_hash == Sha256(cyphertext.bytes)
                 w == io_write(f, ShardDir(shard), cyphertext.bytes)
             IN  IF ~w.ok THEN [res |-> Err("io", TRUE), fs |-> f]
                 ELSE [res |-> OkHash(state_hash), fs |-> w.fs]

\* exists
exists(f, shard) == ShardDir(shard) \in DOMAIN f.files

\* where an I/O failure hits init_shard, if anywhere
InitFaults == {"none", "create_dir", "create_file"}

\* init_shard opening the state file without truncating it
init_shard_keep(f, shard, fault) ==
    LET path == ShardDir(shard)
        made == [f EXCEPT !.root = TRUE, !.dirs = @ \cup {path}]
    IN  IF fault = "create_dir" THEN [res |-> Err("io", FALSE), fs |-> f]
        ELSE IF fault = "create_file" THEN [res |-> Err("io", FALSE), fs |-> made]
        ELSE [res |-> OkUnit,
              fs |-> IF path \in DOMAIN f.files THEN made
                     ELSE [made EXCEPT !.files = MapInsert(@, path, <<>>)]]

\* init_shard
init_shard(f, shard, fault) ==
    LET path == ShardDir(shard)
        made == [f EXCEPT !.root = TRUE, !.dirs = @ \cup {path}]
    IN  IF fault = "create_dir" THEN [res |-> Err("io", FALSE), fs |-> f]
        ELSE IF fault = "create_file" THEN [res |-> Err("io", FALSE), fs |-> made]
        ELSE [res |-> OkUnit,
              fs |-> [made EXCEPT !.files = MapInsert(@, path, <<>>)]]

\* load_initialized_state initializing the shard whether it exists or not
load_initialized_always_init(f, shard, gw, fault) ==
    LET i == init_shard(f, shard, fault)
    IN  IF ~i.res.ok THEN i
        ELSE [res |-> OkState(Stf_init_state.state, Stf_init_state.state_diff, FALSE),
              fs |-> i.fs]

\* load_initialized_state
load_initialized_state(f, shard, gw, fault) ==
    IF exists(f, shard)
    THEN [res |-> load(f, shard, gw), fs |-> f]
    ELSE LET i == init_shard(f, shard, fault)
         IN  IF ~i.res.ok THEN i
             ELSE [res |-> OkState(Stf_init_state.state, Stf_init_state.state_diff, FALSE),
                   fs |-> i.fs]

RECURSIVE list_entries_skip(_, _)
\* the loop of list_shards skipping the entries it cannot decode
list_entries_skip(files, shards) ==
    IF Len(files) = 0 THEN OkShards(shards)
    ELSE LET name == IntoString(Head(files))
             s == FromBase58(name.text)
             id == DecodeShard(s.bytes)
         IN  IF name.ok /\ s.ok /\ id.ok
             THEN list_entries_skip(Tail(files), Append(shards, id.shard))
             ELSE list_entries_skip(Tail(files), shards)

RECURSIVE list_entries(_, _)
\* the loop of list_shards over the entries, in the order read_dir yields
list_entries(files, shards) ==
    IF Len(files) = 0 THEN OkShards(shards)
    ELSE LET name == IntoString(Head(files))
         IN  IF ~name.ok THEN Err("utf8", FALSE)
             ELSE LET s == FromBase58(name.text)
                  IN  IF ~s.ok THEN Err("base58", FALSE)
                      ELSE LET id == DecodeShard(s.bytes)
                           IN  IF ~id.ok THEN Err("decode", FALSE)
                               ELSE list_entries(Tail(files), Append(shards, id.shard))

\* list_shards handing on read_dir's error
list_shards_no_root_err(f, order) ==
    IF ~f.root THEN Err("io", FALSE) ELSE list_entries(order, <<>>)

\* list_shards, with read_dir yielding the entries in the given order
list_shards(f, order) ==
    IF ~f.root THEN OkShards(<<>>) ELSE list_entries(order, <<>>)

RECURSIVE DirOrders(_)
\* the orders in which read_dir may yield a set of entries
DirOrders(entries) ==
    IF entries = {} THEN {<<>>}
    ELSE UNION { { <<name>> \o rest : rest \in DirOrders(entries \ {name}) } :
                 name \in entries }

\* remove_shard_dir
remove_shard_dir(f, shard) ==
    [f EXCEPT !.dirs = @ \ {ShardDir(shard)},
              !.files = [n \in (DOMAIN @) \ {ShardDir(shard)} |-> @[n]]]

(***************************************************************************)
(* The state store's operations as steps                                   *)
(***************************************************************************)
\* names of entries that something else may leave under SHARDS_PATH: not
\* valid UTF-8, not base-58, too short for an identifier, longer than one
ForeignNames ==
    { <<NonUtf8Unit>>,
      <<1, NonB58Char>>,
      ToBase58(<<1>>),
      ToBase58(<<1>> \o Zeros(ShardIdLen)) }

\* what untrusted storage may put in place of a state file: nothing, the
\* sealing of a state value, of a truncated one, of one with bytes appended
TamperBytes ==
    { <<>>,
      AesCrypt(EncodeState((<<1>> :> <<2>>))),
      AesCrypt(<<2, 1, 0>>),
      AesCrypt(<<0, 3>>) }

NoArg == [state |-> EmptyMap, state_diff |-> EmptyDiff]

\* the state file a call found: none, or its bytes
Found(f, shard) ==
    IF exists(f, shard) THEN <<f.files[ShardDir(shard)]>> ELSE <<>>

\* the record of the last call: its arguments, how the gateway and the
\* file system served it, the state file write, init_shard or
\* load_initialized_state found, and its result
Call(op, shard, gw, fault, had, arg, res) ==
    [op |-> op, shard |-> shard, gw |-> gw, fault |-> fault, had |-> had,
     arg |-> arg, res |-> res]

StoreInit ==
    /\ fs = [root |-> FALSE, dirs |-> {}, files |-> EmptyMap]
    /\ last = Call("none", ShardA, "ok", "none", <<>>, NoArg, NoRes)
    /\ pending = [s \in Shards |-> <<>>]

\* load writing the initial state to the state file it finds empty
LoadPersisting(shard, gw) ==
    /\ last' = Call("load", shard, gw, "none", <<>>, NoArg, load(fs, shard, gw))
    /\ fs' = IF exists(fs, shard) /\ Len(fs.files[ShardDir(shard)]) = 0
             THEN write(fs, [state |-> Stf_init_state.state,
                             state_diff |-> EmptyDiff], shard, gw).fs
             ELSE fs
    /\ UNCHANGED pending
    /\ UNCHANGED rotVars

Load(shard, gw) ==
    /\ last' = Call("load", shard, gw, "none", <<>>, NoArg, load(fs, shard, gw))
    /\ UNCHANGED <<fs, pending>>
    /\ UNCHANGED rotVars

Write(state, shard, gw) ==
    LET w == write(fs, state, shard, gw)
    IN  /\ fs' = w.fs
        /\ last' = Call("write", shard, gw, "none", Found(fs, shard), state, w.res)
        /\ pending' = [pending EXCEPT
                         ![shard] = IF w.res.ok THEN <<state.state>> ELSE <<>>]
        /\ UNCHANGED rotVars

Exists(shard) ==
    /\ last' = Call("exists", shard, "ok", "none", <<>>, NoArg,
                    OkBool(exists(fs, shard)))
    /\ UNCHANGED <<fs, pending>>
    /\ UNCHANGED rotVars

InitShard(shard, fault) ==
    LET i == init_shard(fs, shard, fault)
    IN  /\ fs' = i.fs
        /\ last' = Call("init_shard", shard, "ok", fault, Found(fs, shard),
                        NoArg, i.res)
        /\ pending' = [pending EXCEPT ![shard] = <<>>]
        /\ UNCHANGED rotVars

LoadInitialized(shard, gw, fault) ==
    LET l == load_initialized_state(fs, shard, gw, fault)
    IN  /\ fs' = l.fs
        /\ last' = Call("load_initialized_state", shard, gw, fault,
                        Found(fs, shard), NoArg, l.res)
        /\ pending' = IF exists(fs, shard) THEN pending
                      ELSE [pending EXCEPT ![shard] = <<>>]
        /\ UNCHANGED rotVars

ListShards ==
    /\ \E order \in DirOrders(fs.dirs) :
          last' = Call("list_shards", ShardA, "ok", "none", <<>>, NoArg,
                       list_shards(fs, order))
    /\ UNCHANGED <<fs, pending>>
    /\ UNCHANGED rotVars

RemoveShardDir(shard) ==
    /\ ShardDir(shard) \in fs.dirs
    /\ fs' = remove_shard_dir(fs, shard)
    /\ last' = Call("remove_shard_dir", shard, "ok", "none", <<>>, NoArg, OkUnit)
    /\ pending' = [pending EXCEPT ![shard] = <<>>]
    /\ UNCHANGED rotVars

\* untrusted storage replaces the bytes of a state file
Tamper(shard, bytes) ==
    /\ exists(fs, shard)
    /\ fs' = [fs EXCEPT !.files = MapInsert(@, ShardDir(shard), bytes)]
    /\ last' = Call("tamper", shard, "ok", "none", <<>>, NoArg, OkUnit)
    /\ pending' = [pending EXCEPT ![shard] = <<>>]
    /\ UNCHANGED rotVars

\* something else leaves an entry under SHARDS_PATH
ForeignEntry(name) ==
    /\ name \notin fs.dirs
    /\ Cardinality(fs.dirs \cap ForeignNames) < MaxForeign
    /\ fs' = [fs EXCEPT !.root = TRUE, !.dirs = @ \cup {name}]
    /\ last' = Call("foreign", ShardA, "ok", "none", <<>>, NoArg, OkUnit)
    /\ UNCHANGED <<pending>>
    /\ UNCHANGED rotVars

StoreNext ==
    \/ \E shard \in Shards, gw \in GatewayOutcomes : Load(shard, gw)
    \/ \E state \in StfStates, shard \in Shards, gw \in GatewayOutcomes :
          Write(state, shard, gw)
    \/ \E shard \in Shards : Exists(shard)
    \/ \E shard \in Shards, fault \in InitFaults : InitShard(shard, fault)
    \/ \E shard \in Shards, gw \in GatewayOutcomes, fault \in InitFaults :
          LoadInitialized(shard, gw, fault)
    \/ ListShards
    \/ \E shard \in Shards : RemoveShardDir(shard)
    \/ \E shard \in Shards, bytes \in TamperBytes : Tamper(shard, bytes)
    \/ \E name \in ForeignNames : ForeignEntry(name)

(***************************************************************************)
(* Pool rotator (top_pool/rotator.rs)                                      *)
(***************************************************************************)
\* EXPECTED_SIZE (2048 in the program, scaled down)
EXPECTED_SIZE == 2

\* PoolRotator.ban_time, in ticks of the model's clock
ban_time == 2

\* operation hashes: one more than the map holds without evicting
Hashes == 1 .. (2 * EXPECTED_SIZE + 1)

\* the batches of hashes handed to ban: none, each single hash, and the
\* first hashes of every number up to all
Batches == {{}} \cup { {h} : h \in Hashes } \cup { 1 .. n : n \in Hashes }

\* the instants at which callers ban: 0, and instants at which a ban made at
\* 0 has expired
BanInstants == {0} \cup { ban_time + n : n \in 1 .. MaxNow }

\* the instants a sweep may be asked for: from the first expiry there can be
\* (a sweep before it removes as little) up to T + 2 * ban_time
SweepInstants == ban_time .. ((ban_time + MaxNow) + 2 * ban_time)

Blocks == 0 .. MaxBlock

\* the blocks at which ban_if_stale is asked about an operation valid till
\* block b: the block before b, b itself and the block after it
BlocksNear(b) == { c \in Blocks : c + 1 >= b /\ c <= b + 1 }

\* HashMap::remove
MapRemove(m, k) == [x \in (DOMAIN m) \ {k} |-> m[x]]

\* is_banned reading an entry whose expiry is that of a ban made at 0 as
\* expired
is_banned_unexpired(banned, hash) ==
    hash \in DOMAIN banned /\ banned[hash] > ban_time

\* is_banned
is_banned(banned, hash) == hash \in DOMAIN banned

\* the loop of ban building the map from the batch alone
ban_insert_replace(banned, now, hashes) ==
    [h \in hashes |-> now + ban_time]

\* the loop of ban leaving the expiry of a hash that is banned already
ban_insert_keep(banned, now, hashes) ==
    [h \in (DOMAIN banned) \cup hashes |->
        IF h \in DOMAIN banned THEN banned[h] ELSE now + ban_time]

\* the loop of ban over the hashes: insert, or overwrite, each one's expiry
ban_insert(banned, now, hashes) ==
    [h \in (DOMAIN banned) \cup hashes |->
        IF h \in hashes THEN now + ban_time ELSE banned[h]]

\* the while loop of ban, on the map's keys: each round removes the key the
\* map's iterator yields first, which may be any key, until EXPECTED_SIZE
\* keys are left; the sets of keys the loop may end with are the sets of
\* EXPECTED_SIZE of the keys (BanEvict takes the loop round by round)
evict_keys(keys) ==
    IF Cardinality(keys) > EXPECTED_SIZE
    THEN { left \in SUBSET keys : Cardinality(left) = EXPECTED_SIZE }
    ELSE {keys}

\* the maps the while loop of ban may end with: the entries of the keys left
ban_evict(banned) ==
    { [h \in keys |-> banned[h]] : keys \in evict_keys(DOMAIN banned) }

\* ban without the eviction
ban_no_evict(banned, now, hashes) == {ban_insert(banned, now, hashes)}

\* ban evicting as soon as the map holds more than EXPECTED_SIZE entries
ban_evict_early(banned, now, hashes) ==
    LET inserted == ban_insert(banned, now, hashes)
    IN  IF Cardinality(DOMAIN inserted) > EXPECTED_SIZE
        THEN ban_evict(inserted)
        ELSE {inserted}

\* ban: the maps the call may leave
ban(banned, now, hashes) ==
    LET inserted == ban_insert(banned, now, hashes)
    IN  IF Cardinality(DOMAIN inserted) > 2 * EXPECTED_SIZE
        THEN ban_evict(inserted)
        ELSE {inserted}

\* ban_if_stale taking an operation valid till the current block as fresh
ban_if_stale_strict(banned, now, current_block, xt) ==
    IF xt.valid_till >= current_block
    THEN {[ret |-> FALSE, banned |-> banned]}
    ELSE {[ret |-> TRUE, banned |-> b] : b \in ban(banned, now, {xt.hash})}

\* ban_if_stale banning the hash of a fresh operation too
ban_if_stale_bans_fresh(banned, now, current_block, xt) ==
    IF xt.valid_till > current_block
    THEN {[ret |-> FALSE, banned |-> b] : b \in ban(banned, now, {xt.hash})}
    ELSE {[ret |-> TRUE, banned |-> b] : b \in ban(banned, now, {xt.hash})}

\* ban_if_stale: the results and maps the call may leave
ban_if_stale(banned, now, current_block, xt) ==
    IF xt.valid_till > current_block
    THEN {[ret |-> FALSE, banned |-> banned]}
    ELSE {[ret |-> TRUE, banned |-> b] : b \in ban(banned, now, {xt.hash})}

\* clear_timeouts removing the entries that expire at now too
clear_timeouts_strict(banned, now) ==
    [h \in {k \in DOMAIN banned : banned[k] > now} |-> banned[h]]

\* clear_timeouts
clear_timeouts(banned, now) ==
    [h \in {k \in DOMAIN banned : banned[k] >= now} |-> banned[h]]

\* the record of the last call: its arguments and its result (of the
\* instant handed to ban_if_stale the map keeps the expiry, the record
\* nothing), and for ban of a single hash the expiry it had before the call
RCall(op, now, block, valid_till, hashes, ret) ==
    [op |-> op, now |-> now, block |-> block, valid_till |-> valid_till,
     hashes |-> hashes, ret |-> ret, had |-> {}]

\* the expiries under which hashes of the batch are in the map
ExpiriesOf(banned, hashes) ==
    { banned[h] : h \in hashes \cap DOMAIN banned }

RotatorInit ==
    /\ banned_until = EmptyMap
    /\ rlast = RCall("none", 0, 0, 0, {}, FALSE)

IsBanned(hash) ==
    /\ rlast' = RCall("is_banned", 0, 0, 0, {hash}, is_banned(banned_until, hash))
    /\ UNCHANGED banned_until
    /\ UNCHANGED lockVars
    /\ UNCHANGED storeVars

Ban(now, hashes) ==
    /\ banned_until' \in ban(banned_until, now, hashes)
    /\ rlast' = [RCall("ban", now, 0, 0, hashes, FALSE)
                   EXCEPT !.had = IF Cardinality(hashes) = 1
                                  THEN ExpiriesOf(banned_until, hashes)
                                  ELSE {}]
    /\ UNCHANGED lockVars
    /\ UNCHANGED storeVars

BanIfStale(now, current_block, xt) ==
    /\ \E r \in ban_if_stale(banned_until, now, current_block, xt) :
          /\ banned_until' = r.banned
          /\ rlast' = RCall("ban_if_stale", 0, current_block, xt.valid_till,
                            {xt.hash}, r.ret)
    /\ UNCHANGED lockVars
    /\ UNCHANGED storeVars

ClearTimeouts(now) ==
    /\ banned_until' = clear_timeouts(banned_until, now)
    /\ rlast' = RCall("clear_timeouts", now, 0, 0, {}, FALSE)
    /\ UNCHANGED lockVars
    /\ UNCHANGED storeVars

RotatorNext ==
    \/ \E hash \in Hashes : IsBanned(hash)
    \/ \E now \in BanInstants, hashes \in Batches : Ban(now, hashes)
    \/ \E now \in BanInstants, xt \in [hash : Hashes, valid_till : Blocks] :
          \E current_block \in BlocksNear(xt.valid_till) :
              BanIfStale(now, current_block, xt)
    \/ \E now \in SweepInstants : ClearTimeouts(now)

(***************************************************************************)
(* The pool rotator under concurrent callers: each call takes the lock of  *)
(* banned_until, works on the map step by step, and gives the lock back    *)
(* when its guard is dropped at the end of the call                        *)
(***************************************************************************)
\* the threads calling into one rotator
NumThreads == 2

Threads == 1 .. NumThreads

\* the lock when nobody holds it: no writer (0) and no readers
Unlocked == [writer |-> 0, readers |-> {}]

\* a thread outside every call
Idle == [pc |-> "idle", hash |-> 0, now |-> 0, todo |-> {}]

\* the positions at which a thread holds the write guard
WritePcs == {"insert", "evict", "retain", "unlock"}

\* SgxRwLock::read returns when no writer holds the lock
can_read(l) == l.writer = 0

\* SgxRwLock::write returns when neither a writer nor a reader holds the lock
can_write(l) == l.writer = 0 /\ l.readers = {}

\* the hash the loop of ban takes next from the batch
NextHash(todo) == CHOOSE h \in todo : \A g \in todo : h <= g

LockInit ==
    /\ lock = Unlocked
    /\ thr = [t \in Threads |-> Idle]

\* is_banned reading the map without waiting for the lock
IsBannedNoLock(t, hash) ==
    /\ thr[t] = Idle
    /\ lock' = [lock EXCEPT !.readers = @ \cup {t}]
    /\ thr' = [thr EXCEPT ![t] = [Idle EXCEPT !.pc = "contains_key", !.hash = hash]]
    /\ UNCHANGED <<banned_until, rlast>>
    /\ UNCHANGED storeVars

\* is_banned: banned_until.read()
IsBannedLock(t, hash) ==
    /\ thr[t] = Idle
    /\ can_read(lock)
    /\ lock' = [lock EXCEPT !.readers = @ \cup {t}]
    /\ thr' = [thr EXCEPT ![t] = [Idle EXCEPT !.pc = "contains_key", !.hash = hash]]
    /\ UNCHANGED <<banned_until, rlast>>
    /\ UNCHANGED storeVars

\* is_banned: contains_key on the guarded map, then the read guard is dropped
IsBannedContains(t) ==
    /\ thr[t].pc = "contains_key"
    /\ lock' = [lock EXCEPT !.readers = @ \ {t}]
    /\ thr' = [thr EXCEPT ![t] = Idle]
    /\ UNCHANGED <<banned_until, rlast>>
    /\ UNCHANGED storeVars

\* ban: banned_until.write()
BanLock(t, now, hashes) ==
    /\ thr[t] = Idle
    /\ can_write(lock)
    /\ lock' = [lock EXCEPT !.writer = t]
    /\ thr' = [thr EXCEPT ![t] = [Idle EXCEPT !.pc = "insert", !.now = now,
                                               !.todo = hashes]]
    /\ UNCHANGED <<banned_until, rlast>>
    /\ UNCHANGED storeVars

\* ban: one round of the loop over the hashes
BanInsert(t) ==
    /\ thr[t].pc = "insert"
    /\ thr[t].todo # {}
    /\ LET hash == NextHash(thr[t].todo)
       IN  /\ banned_until' = MapInsert(banned_until, hash, thr[t].now + ban_time)
           /\ thr' = [thr EXCEPT ![t].todo = @ \ {hash}]
    /\ UNCHANGED <<lock, rlast>>
    /\ UNCHANGED storeVars

\* ban: after the loop over the hashes, the test of the map's size
BanCheckSize(t) ==
    /\ thr[t].pc = "insert"
    /\ thr[t].todo = {}
    /\ thr' = [thr EXCEPT ![t].pc =
                  IF Cardinality(DOMAIN banned_until) > 2 * EXPECTED_SIZE
                  THEN "evict" ELSE "unlock"]
    /\ UNCHANGED <<banned_until, lock, rlast>>
    /\ UNCHANGED storeVars

\* ban: one round of the while loop, removing the key the iterator yields
BanEvict(t) ==
    /\ thr[t].pc = "evict"
    /\ IF Cardinality(DOMAIN banned_until) > EXPECTED_SIZE
       THEN /\ \E key \in DOMAIN banned_until :
                  banned_until' = MapRemove(banned_until, key)
            /\ UNCHANGED thr
       ELSE /\ thr' = [thr EXCEPT ![t].pc = "unlock"]
            /\ UNCHANGED banned_until
    /\ UNCHANGED <<lock, rlast>>
    /\ UNCHANGED storeVars

\* clear_timeouts: banned_until.write()
ClearLock(t, now) ==
    /\ thr[t] = Idle
    /\ can_write(lock)
    /\ lock' = [lock EXCEPT !.writer = t]
    /\ thr' = [thr EXCEPT ![t] = [Idle EXCEPT !.pc = "retain", !.now = now]]
    /\ UNCHANGED <<banned_until, rlast>>
    /\ UNCHANGED storeVars

\* clear_timeouts: retain on the guarded map
ClearRetain(t) ==
    /\ thr[t].pc = "retain"
    /\ banned_until' = clear_timeouts(banned_until, thr[t].now)
    /\ thr' = [thr EXCEPT ![t].pc = "unlock"]
    /\ UNCHANGED <<lock, rlast>>
    /\ UNCHANGED storeVars

\* the end of ban and of clear_timeouts: the write guard is dropped
WriteUnlock(t) ==
    /\ thr[t].pc = "unlock"
    /\ lock' = [lock EXCEPT !.writer = 0]
    /\ thr' = [thr EXCEPT ![t] = Idle]
    /\ UNCHANGED <<banned_until, rlast>>
    /\ UNCHANGED storeVars

LockNext ==
    \E t \in Threads :
        \/ \E hash \in Hashes : IsBannedLock(t, hash)
        \/ IsBannedContains(t)
        \/ \E now \in BanInstants, hashes \in Batches : BanLock(t, now, hashes)
        \/ BanInsert(t)
        \/ BanCheckSize(t)
        \/ BanEvict(t)
        \/ \E now \in SweepInstants : ClearLock(t, now)
        \/ ClearRetain(t)
        \/ WriteUnlock(t)

(***************************************************************************)
(* Specifications                                                          *)
(***************************************************************************)
Init == StoreInit /\ RotatorInit /\ LockInit

\* the state store alone
StoreSpec == Init /\ [][StoreNext]_vars

\* the pool rotator alone
RotatorSpec == Init /\ [][RotatorNext]_vars

\* the pool rotator with concurrent callers
LockSpec == Init /\ [][LockNext]_vars

\* both components side by side; they share no state, so the properties are
\* checked under StoreSpec and RotatorSpec
Next == StoreNext \/ RotatorNext \/ LockNext

Spec == Init /\ [][Next]_vars

(***************************************************************************)
(* Properties of the state store (checked under StoreSpec)                 *)
(***************************************************************************)
\* whether list_shards can turn the entry's name into an identifier
Decodable(name) ==
    /\ IntoString(name).ok
    /\ FromBase58(IntoString(name).text).ok
    /\ DecodeShard(FromBase58(IntoString(name).text).bytes).ok

\* the identifier list_shards reads from a decodable name
IdOf(name) == DecodeShard(FromBase58(IntoString(name).text).bytes).shard

\* what is stored for a shard before its ciphertext is opened
Stored(shard) == fs.files[ShardDir(shard)]

\* C1: a load of shard S that the gateway serves, coming after a successful
\* write(V, S) with no other operation on S in between, returns V with an
\* empty diff
C1_RoundTrip ==
    (last.op = "load" /\ last.gw = "ok" /\ pending[last.shard] # <<>>)
        => /\ last.res.ok
           /\ last.res.state = pending[last.shard][1]
           /\ last.res.state_diff = EmptyDiff

C1_Witness ==
    /\ last.op = "load" /\ last.gw = "ok"
    /\ pending[last.shard] # <<>>
    /\ pending[last.shard][1] # EmptyMap
    /\ last.res.ok
    /\ last.res.state = pending[last.shard][1]

\* C2: a load of a shard whose state file is not empty returns an error, and
\* no state value, when the decryption fails or the decrypted bytes do not
\* decode; it never returns the initial state in their place
C2_NoDefaultOnFailure ==
    (/\ last.op = "load"
     /\ exists(fs, last.shard)
     /\ Len(Stored(last.shard)) > 0
     /\ (last.gw # "ok" \/ ~DecodeState(AesCrypt(Stored(last.shard))).ok))
        => /\ ~last.res.ok
           /\ last.res.err \in {"crypto", "decode"}
           /\ last.res.state # Stf_init_state.state

C2_Witness ==
    /\ last.op = "load" /\ last.gw = "ok"
    /\ exists(fs, last.shard)
    /\ Len(Stored(last.shard)) > 0
    /\ ~DecodeState(AesCrypt(Stored(last.shard))).ok
    /\ ~last.res.ok /\ last.res.err = "decode"

\* C3: a load of a shard whose state file exists with zero bytes returns Ok
\* with the initial state value and an empty diff, without calling the
\* sealing gateway, whether the gateway would have served the call or not
C3_UninitializedShard ==
    (last.op = "load" /\ exists(fs, last.shard) /\ Len(Stored(last.shard)) = 0)
        => last.res = OkState(Stf_init_state.state, EmptyDiff, FALSE)

C3_Witness ==
    /\ last.op = "load" /\ last.gw # "ok"
    /\ exists(fs, last.shard) /\ Len(Stored(last.shard)) = 0
    /\ last.res.ok /\ ~last.res.unsealed

\* C4: write stores the same bytes and returns the same hash whatever the
\* diff: in every state two writes of one value with two diffs agree in
\* their result and in the storage they leave, and the write just done left
\* what a write of its value with any other diff leaves
C4_DiffIndependence ==
    /\ \A V \in StateValues, D1, D2 \in StateDiffs, shard \in Shards,
          gw \in GatewayOutcomes :
          write(fs, [state |-> V, state_diff |-> D1], shard, gw)
              = write(fs, [state |-> V, state_diff |-> D2], shard, gw)
    /\ (last.op = "write" /\ last.res.ok)
          => \A D \in StateDiffs :
                LET w == write(fs, [state |-> last.arg.state, state_diff |-> D],
                               last.shard, "ok")
                IN  w.res = last.res /\ w.fs = fs

C4_Witness ==
    /\ last.op = "write" /\ last.res.ok
    /\ last.arg.state_diff # EmptyDiff
    /\ Len(Stored(last.shard)) > 0

\* C5: an init_shard that no I/O failure hits returns Ok and leaves the
\* shard's state file existing with zero bytes, also when the file held
\* ciphertext; a load then returns the initial state, and another init_shard
\* returns Ok and changes nothing
C5_InitShardIdempotent ==
    (last.op = "init_shard" /\ last.fault = "none")
        => /\ last.res.ok
           /\ exists(fs, last.shard)
           /\ Stored(last.shard) = <<>>
           /\ \A gw \in GatewayOutcomes :
                 load(fs, last.shard, gw)
                     = OkState(Stf_init_state.state, EmptyDiff, FALSE)
           /\ init_shard(fs, last.shard, "none") = [res |-> OkUnit, fs |-> fs]

C5_Witness ==
    /\ last.op = "init_shard" /\ last.fault = "none"
    /\ last.had # <<>>
    /\ Len(last.had[1]) > 0
    /\ last.res.ok
    /\ Stored(last.shard) = <<>>

\* C6: load_initialized_state of a shard that exists returns what load
\* returns, its error included, and leaves the storage as it is; of a shard
\* that does not exist (and no I/O failure) it returns the initial state,
\* after which the shard exists with an empty state file
C6_LoadInitialized ==
    [][ last'.op = "load_initialized_state"
          => IF exists(fs, last'.shard)
             THEN /\ last'.res = load(fs, last'.shard, last'.gw)
                  /\ fs' = fs
             ELSE last'.fault = "none"
                    => /\ last'.res = OkState(Stf_init_state.state,
                                              Stf_init_state.state_diff, FALSE)
                       /\ exists(fs', last'.shard)
                       /\ fs'.files[ShardDir(last'.shard)] = <<>> ]_vars

C6_Witness ==
    /\ last.op = "load_initialized_state"
    /\ last.had = <<>> /\ last.fault = "none"
    /\ last.res.ok
    /\ exists(fs, last.shard) /\ Stored(last.shard) = <<>>

\* C7: list_shards on an existing root returns an error and no list when
\* some entry's name is not UTF-8, not base-58 or too short for an
\* identifier; otherwise it returns one identifier per entry, that of every
\* entry
C7_ListAllOrNothing ==
    (last.op = "list_shards" /\ fs.root)
        => IF \E name \in fs.dirs : ~Decodable(name)
           THEN ~last.res.ok /\ last.res.shards = <<>>
           ELSE /\ last.res.ok
                /\ Len(last.res.shards) = Cardinality(fs.dirs)
                /\ \A name \in fs.dirs :
                      \E i \in 1 .. Len(last.res.shards) :
                          last.res.shards[i] = IdOf(name)
                /\ \A i \in 1 .. Len(last.res.shards) :
                      \E name \in fs.dirs : last.res.shards[i] = IdOf(name)

C7_Witness ==
    /\ last.op = "list_shards" /\ fs.root
    /\ \E name \in fs.dirs : ~Decodable(name)
    /\ \E name \in fs.dirs : Decodable(name)
    /\ ~last.res.ok

\* C8: list_shards on a shards root that does not exist returns Ok with an
\* empty sequence
C8_ListNoRoot ==
    (last.op = "list_shards" /\ ~fs.root)
        => last.res.ok /\ last.res.shards = <<>>

C8_Witness == last.op = "list_shards" /\ ~fs.root /\ last.res.ok

\* C17: a successful write(V, S) leaves, whatever the state file of S held,
\* a file from which load(S) returns V and nothing else, and leaves the
\* state file of every other shard as it was
C17_LastWriteWins ==
    [][ (last'.op = "write" /\ last'.res.ok)
          => /\ load(fs', last'.shard, "ok")
                   = OkState(last'.arg.state, EmptyDiff, TRUE)
             /\ fs'.files[ShardDir(last'.shard)]
                   = AesCrypt(EncodeState(last'.arg.state))
             /\ \A shard \in Shards \ {last'.shard} :
                   /\ exists(fs', shard) <=> exists(fs, shard)
                   /\ exists(fs, shard)
                         => fs'.files[ShardDir(shard)] = fs.files[ShardDir(shard)] ]_vars

\* a write over the state file of an earlier, different value, next to
\* another shard whose state file holds a value
C17_Witness ==
    /\ last.op = "write" /\ last.res.ok
    /\ last.had # <<>>
    /\ Len(last.had[1]) > 0
    /\ last.had[1] # Stored(last.shard)
    /\ load(fs, last.shard, "ok") = OkState(last.arg.state, EmptyDiff, TRUE)
    /\ \E shard \in Shards \ {last.shard} :
          exists(fs, shard) /\ Len(Stored(shard)) > 0

\* C19: load leaves the shards tree as it is, whatever it returns: the
\* entries, the state files and their bytes; the state file of a shard that
\* is not initialized stays empty
C19_LoadReadsOnly ==
    [][ last'.op = "load" => fs' = fs ]_vars

\* load has returned the initial state for a shard whose state file is
\* still empty
C19_Witness ==
    /\ last.op = "load"
    /\ last.res = OkState(Stf_init_state.state, EmptyDiff, FALSE)
    /\ exists(fs, last.shard)
    /\ Len(Stored(last.shard)) = 0
    /\ \E shard \in Shards \ {last.shard} :
          exists(fs, shard) /\ Len(Stored(shard)) > 0

(***************************************************************************)
(* Properties of the pool rotator (checked under RotatorSpec)              *)
(***************************************************************************)
\* C9: when ban_if_stale has returned true, the operation's hash is banned
C9_BannedAfterStale ==
    (rlast.op = "ban_if_stale" /\ rlast.ret)
        => \A h \in rlast.hashes : is_banned(banned_until, h)

\* C10: ban_if_stale returns true exactly when valid_till <= current_block
C10_StaleIff ==
    rlast.op = "ban_if_stale"
        => (rlast.ret <=> rlast.valid_till <= rlast.block)

C10_Witness ==
    /\ rlast.op = "ban_if_stale"
    /\ rlast.valid_till = rlast.block
    /\ rlast.ret
    /\ \A h \in rlast.hashes : is_banned(banned_until, h)

\* C11: a ban_if_stale call that returns false (valid_till > current_block)
\* leaves the ban map, every key and every expiry, as it was
C11_FreshNoMutation ==
    [][ (rlast'.op = "ban_if_stale" /\ ~rlast'.ret)
          => /\ rlast'.valid_till > rlast'.block
             /\ banned_until' = banned_until ]_vars

C11_Witness ==
    /\ rlast.op = "ban_if_stale" /\ ~rlast.ret
    /\ rlast.valid_till > rlast.block
    /\ banned_until # EmptyMap
    /\ \A h \in rlast.hashes : ~is_banned(banned_until, h)

\* C12: clear_timeouts(now) removes every entry whose expiry is before now,
\* keeps every entry whose expiry is now or later with its expiry, and adds
\* none; an entry banned at T is gone after clear_timeouts(T + 2 * ban_time)
C12_ClearExactly ==
    [][ rlast'.op = "clear_timeouts"
          => /\ DOMAIN banned_until' \subseteq DOMAIN banned_until
             /\ \A h \in DOMAIN banned_until :
                   IF banned_until[h] < rlast'.now
                   THEN ~is_banned(banned_until', h)
                   ELSE /\ is_banned(banned_until', h)
                        /\ banned_until'[h] = banned_until[h]
             /\ \A h \in DOMAIN banned_until :
                   rlast'.now = (banned_until[h] - ban_time) + 2 * ban_time
                       => ~is_banned(banned_until', h) ]_vars

C12_Witness ==
    /\ rlast.op = "clear_timeouts"
    /\ \E h \in DOMAIN banned_until : banned_until[h] = rlast.now
    /\ \E h \in Hashes : ~is_banned(banned_until, h)

\* C13: a ban call whose inserts leave more than 2 * EXPECTED_SIZE entries
\* evicts down to exactly EXPECTED_SIZE of them; one whose inserts leave at
\* most 2 * EXPECTED_SIZE entries evicts nothing
C13_CapacityEviction ==
    [][ (rlast'.op = "ban" \/ (rlast'.op = "ban_if_stale" /\ rlast'.ret))
          => LET inserted == (DOMAIN banned_until) \cup rlast'.hashes
             IN  IF Cardinality(inserted) > 2 * EXPECTED_SIZE
                 THEN /\ Cardinality(DOMAIN banned_until') = EXPECTED_SIZE
                      /\ DOMAIN banned_until' \subseteq inserted
                 ELSE DOMAIN banned_until' = inserted ]_vars

\* one hash banned on top of 2 * EXPECTED_SIZE others: EXPECTED_SIZE entries
\* are left, the hash just banned not among them
C13_Witness ==
    /\ rlast.op = "ban"
    /\ Cardinality(rlast.hashes) = 1
    /\ \A h \in rlast.hashes : ~is_banned(banned_until, h)
    /\ Cardinality(DOMAIN banned_until) = EXPECTED_SIZE

\* C14: is_banned(hash) returns true exactly when hash is a key of the ban
\* map, whatever its expiry, and leaves the map as it is; a key leaves the
\* map only by a clear_timeouts call or by the eviction of a ban call
C14_BannedIffKey ==
    [][ /\ rlast'.op = "is_banned"
            => /\ \A h \in rlast'.hashes :
                     rlast'.ret <=> h \in DOMAIN banned_until
               /\ banned_until' = banned_until
        /\ \/ rlast'.op = "clear_timeouts"
           \/ /\ rlast'.op \in {"ban", "ban_if_stale"}
              /\ Cardinality((DOMAIN banned_until) \cup rlast'.hashes)
                     > 2 * EXPECTED_SIZE
           \/ DOMAIN banned_until \subseteq DOMAIN banned_until' ]_vars

\* is_banned has returned true for a hash whose expiry had passed when
\* another hash of the map was banned
C14_Witness ==
    /\ rlast.op = "is_banned" /\ rlast.ret
    /\ \E h \in rlast.hashes, g \in DOMAIN banned_until :
          /\ is_banned(banned_until, h)
          /\ banned_until[h] < banned_until[g] - ban_time

\* C16: ban(t2, [h]) of a hash h that is banned already leaves the map with
\* the keys it had and h expiring at t2 + ban_time, whatever expiry h had;
\* a clear_timeouts(now) that follows removes h iff t2 + ban_time < now
C16_RebanOverwrites ==
    [][ /\ (rlast'.op = "ban" /\ Cardinality(rlast'.hashes) = 1)
            => \A h \in rlast'.hashes :
                  is_banned(banned_until, h)
                      => /\ DOMAIN banned_until' = DOMAIN banned_until
                         /\ banned_until'[h] = rlast'.now + ban_time
        /\ (rlast'.op = "clear_timeouts" /\ rlast.op = "ban" /\ rlast.had # {})
            => \A h \in rlast.hashes :
                  /\ is_banned(banned_until, h)
                  /\ ~is_banned(banned_until', h)
                        <=> rlast.now + ban_time < rlast'.now ]_vars

\* h banned at a later instant, then at an earlier one: its expiry is that
\* of the second ban
C16_Witness ==
    \E h \in Hashes :
        /\ rlast.op = "ban" /\ rlast.hashes = {h}
        /\ \E was \in rlast.had : was > rlast.now + ban_time
        /\ is_banned(banned_until, h)
        /\ banned_until[h] = rlast.now + ban_time

\* C18: between calls the ban map holds at most 2 * EXPECTED_SIZE entries
C18_BoundedCache ==
    Cardinality(DOMAIN banned_until) <= 2 * EXPECTED_SIZE

\* one ban call given more than 2 * EXPECTED_SIZE hashes has left
\* EXPECTED_SIZE of them
C18_Witness ==
    /\ rlast.op = "ban"
    /\ Cardinality(rlast.hashes) > 2 * EXPECTED_SIZE
    /\ DOMAIN banned_until \subseteq rlast.hashes
    /\ Cardinality(DOMAIN banned_until) = EXPECTED_SIZE

\* C20: a ban call whose inserts leave at most 2 * EXPECTED_SIZE entries
\* keeps every hash that was banned, with its expiry when it is not in the
\* batch, and leaves every hash of the batch banned
C20_BanKeepsBans ==
    [][ (rlast'.op = "ban"
            /\ Cardinality((DOMAIN banned_until) \cup rlast'.hashes)
                   <= 2 * EXPECTED_SIZE)
          => /\ \A h \in DOMAIN banned_until :
                   /\ is_banned(banned_until', h)
                   /\ h \notin rlast'.hashes
                         => banned_until'[h] = banned_until[h]
             /\ \A h \in rlast'.hashes : is_banned(banned_until', h) ]_vars

\* a batch of several hashes banned next to a hash that was banned before
\* at another instant, the map above EXPECTED_SIZE entries
C20_Witness ==
    /\ rlast.op = "ban"
    /\ Cardinality(rlast.hashes) > 1
    /\ \A h \in rlast.hashes : is_banned(banned_until, h)
    /\ \E h \in (DOMAIN banned_until) \ rlast.hashes :
          banned_until[h] # rlast.now + ban_time
    /\ Cardinality(DOMAIN banned_until) > EXPECTED_SIZE

(***************************************************************************)
(* Properties of the pool rotator under concurrent callers (checked under  *)
(* LockSpec)                                                               *)
(***************************************************************************)
\* C15: while an is_banned call reads the map no ban or clear_timeouts call
\* is between its first and its last step, so the map it reads holds all or
\* none of a call's inserts and at most 2 * EXPECTED_SIZE entries; and no
\* two writers are inside their calls at once
C15_AtomicVisibility ==
    /\ \A t \in Threads :
          thr[t].pc = "contains_key"
              => /\ \A w \in Threads : thr[w].pc \notin WritePcs
                 /\ Cardinality(DOMAIN banned_until) <= 2 * EXPECTED_SIZE
    /\ \A w1, w2 \in Threads :
          (thr[w1].pc \in WritePcs /\ thr[w2].pc \in WritePcs) => w1 = w2

\* a ban call in the middle of its eviction, the map above its capacity, and
\* every other thread outside the map
C15_Witness ==
    \E w \in Threads :
        /\ thr[w].pc = "evict"
        /\ Cardinality(DOMAIN banned_until) > 2 * EXPECTED_SIZE
        /\ lock.writer = w /\ lock.readers = {}
        /\ \A t \in Threads \ {w} : thr[t] = Idle

====
